---------------------------- MODULE Spec2Model ----------------------------
(***************************************************************************)
(* Model of the pitchteacher note quiz (src/src/main.jsx): pitch/MIDI      *)
(* arithmetic, target selection, the round state held in the App           *)
(* component, the persisted selection and history, the statistics summary  *)
(* and the soundfont instrument loader.                                    *)
(*                                                                         *)
(* Conventions.  A JavaScript value that may be null is a sequence of      *)
(* length at most one: Null is <<>> and Some(v) is <<v>>.  A value of       *)
(* Math.random() is a pair <<num, den>> with 0 <= num < den, the rational  *)
(* num / den, and "Math.random() * n" is computed exactly.  Weights 0.5    *)
(* and 1 are kept in half units (1 and 2).                                 *)
(***************************************************************************)
EXTENDS Integers, Sequences, FiniteSets, TLC

\* ----- bounds of the model -----
RandGrid == 3          \* Math.random() is a multiple of 1 / RandGrid in the App
FineGrid == 20         \* and of 1 / FineGrid where pickTarget is checked alone
NumInstruments == 2    \* how many entries of INSTRUMENTS are modelled
MaxHistory == 2        \* guesses are recorded while the history is shorter
MaxItems == 3          \* length of the mixed histories summarizeBy is given
MaxRun == 40           \* length of the one-pitch-class histories it is given
SummaryNow == 200      \* Date.now() when the stats are computed, in hours
MaxLoads == 3          \* loadInstrument calls in flight at one time
MaxFetches == 2        \* Soundfont.instrument calls per instrument name

\* ----- constants of the program -----
PITCH_CLASSES == <<"C", "C#", "D", "D#", "E", "F", "F#", "G", "G#", "A", "A#", "B">>

PITCH_CLASS_TO_PC ==
  ("C" :> 0) @@ ("C#" :> 1) @@ ("D" :> 2) @@ ("D#" :> 3) @@ ("E" :> 4) @@ ("F" :> 5) @@
  ("F#" :> 6) @@ ("G" :> 7) @@ ("G#" :> 8) @@ ("A" :> 9) @@ ("A#" :> 10) @@ ("B" :> 11)

MIN_MIDI == 45
MAX_MIDI == 79

\* The instrument names, by position in the INSTRUMENTS array.
INSTRUMENTS == [i \in 1..NumInstruments |-> i]

Null == <<>>
Some(v) == <<v>>

PcSet == {PITCH_CLASSES[i] : i \in 1..Len(PITCH_CLASSES)}
Rand == {<<num, RandGrid>> : num \in 0..(RandGrid - 1)}
FineRand == {<<num, FineGrid>> : num \in 0..(FineGrid - 1)}

\* ----- JavaScript array helpers -----
\* arr.slice(-n)
SliceLast(arr, n) ==
  IF Len(arr) <= n THEN arr ELSE SubSeq(arr, Len(arr) - n + 1, Len(arr))

\* arr.includes(x)
Includes(arr, x) == \E i \in 1..Len(arr) : arr[i] = x

\* list[Math.floor(Math.random() * list.length)], Math.random() = u[1] / u[2]
pickRandom(list, u) == list[((u[1] * Len(list)) \div u[2]) + 1]

\* ----- MIDI / note helpers -----
midiFromPitchClass(pitchClassLabel, octave) ==
  12 * (octave + 1) + PITCH_CLASS_TO_PC[pitchClassLabel]

\* A pitchFromMidi whose octave is not lowered by one, for comparison under C13
pitchFromMidiUnshifted(midi) ==
  LET found == {l \in DOMAIN PITCH_CLASS_TO_PC : PITCH_CLASS_TO_PC[l] = midi % 12}
  IN  [pitchClass |-> IF found = {} THEN "" ELSE CHOOSE l \in found : TRUE,
       octave |-> midi \div 12]

pitchFromMidi(midi) ==
  LET pc == midi % 12
      octave == (midi \div 12) - 1
      found == {l \in DOMAIN PITCH_CLASS_TO_PC : PITCH_CLASS_TO_PC[l] = pc}
  IN  [pitchClass |-> IF found = {} THEN "" ELSE CHOOSE l \in found : TRUE,
       octave |-> octave]

validMidisForPitchClass(pitchClass) ==
  LET all == [o \in 1..9 |-> midiFromPitchClass(pitchClass, o - 1)]
      InRange(midi) == midi >= MIN_MIDI /\ midi <= MAX_MIDI
  IN  SelectSeq(all, InRange)

Abs(x) == IF x < 0 THEN -x ELSE x

\* A loop that takes the later candidate when two are as near, for comparison
\* under C12
RECURSIVE NearestLoopLater(_, _, _, _)
NearestLoopLater(candidateMidis, targetMidi, index, bestMidi) ==
  IF index > Len(candidateMidis) THEN bestMidi
  ELSE IF Abs(candidateMidis[index] - targetMidi) <= Abs(bestMidi - targetMidi)
       THEN NearestLoopLater(candidateMidis, targetMidi, index + 1, candidateMidis[index])
       ELSE NearestLoopLater(candidateMidis, targetMidi, index + 1, bestMidi)

\* The loop of nearestMidiForPitchClass from position index on, with the best
\* candidate so far.
RECURSIVE NearestLoop(_, _, _, _)
NearestLoop(candidateMidis, targetMidi, index, bestMidi) ==
  IF index > Len(candidateMidis) THEN bestMidi
  ELSE LET diff == Abs(candidateMidis[index] - targetMidi)
           bestDiffAbs == Abs(bestMidi - targetMidi)
       IN  IF diff < bestDiffAbs \/ (diff = bestDiffAbs /\ candidateMidis[index] < bestMidi)
           THEN NearestLoop(candidateMidis, targetMidi, index + 1, candidateMidis[index])
           ELSE NearestLoop(candidateMidis, targetMidi, index + 1, bestMidi)

nearestMidiForPitchClass(pitchClass, targetMidi) ==
  LET candidateMidis == validMidisForPitchClass(pitchClass)
  IN  IF Len(candidateMidis) = 0 THEN Null
      ELSE LET bestMidi == NearestLoop(candidateMidis, targetMidi, 2, candidateMidis[1])
               p == pitchFromMidi(bestMidi)
           IN  Some([midi |-> bestMidi, pitchClass |-> p.pitchClass, octave |-> p.octave])


\* ----- target selection -----
\* !!selected[pc] for the object read from storage or built by onToggle
IsOn(sel, pc) == pc \in DOMAIN sel /\ sel[pc]

\* PITCH_CLASSES.filter((pc) => !!selected[pc])
selectedPitchClasses(sel) ==
  LET On(pc) == IsOn(sel, pc)
  IN  SelectSeq(PITCH_CLASSES, On)

\* A JavaScript string-or-null used as a condition
Truthy(optStr) == optStr /= Null /\ optStr[1] /= ""

\* Weights that do not tell the previous pitch class, for comparison under C8
Weight2Even(pc, prevPitchClass) == 2

\* Weight of a pitch class in half units: 0.5 for the previous one, 1 otherwise
Weight2(pc, prevPitchClass) == IF Some(pc) = prevPitchClass THEN 1 ELSE 2

RECURSIVE SumWeights2(_, _, _)
SumWeights2(pcs, prevPitchClass, i) ==
  IF i > Len(pcs) THEN 0
  ELSE Weight2(pcs[i], prevPitchClass) + SumWeights2(pcs, prevPitchClass, i + 1)

\* The loop "if ((r -= weights[i]) <= 0)": r is kept multiplied by 2 * den.
\* Returns the index chosen, or 0 when the loop ends without choosing.
RECURSIVE WeightedLoop(_, _, _, _, _)
WeightedLoop(pcs, prevPitchClass, i, r, den) ==
  IF i > Len(pcs) THEN 0
  ELSE LET r2 == r - Weight2(pcs[i], prevPitchClass) * den
       IN  IF r2 <= 0 THEN i ELSE WeightedLoop(pcs, prevPitchClass, i + 1, r2, den)

\* The pitch class pickTarget chooses among pcs (non-empty) on the draw u
pickPitchClass(pcs, prevPitchClass, u) ==
  IF Truthy(prevPitchClass) /\ Len(pcs) > 1 /\ Includes(pcs, prevPitchClass[1])
  THEN LET total == SumWeights2(pcs, prevPitchClass, 1)
           i == WeightedLoop(pcs, prevPitchClass, 1, u[1] * total, u[2])
       IN  IF i = 0 THEN pcs[Len(pcs)] ELSE pcs[i]
  ELSE pickRandom(pcs, u)

\* A filter that keeps every candidate, for comparison under C4
FilterKeepingAll(candidateMidis, excludeMidis) == candidateMidis

\* candidateMidis.filter((midi) => !excludeMidis.includes(midi))
FilterExcluded(candidateMidis, excludeMidis) ==
  LET Keep(midi) == ~Includes(excludeMidis, midi)
  IN  SelectSeq(candidateMidis, Keep)

\* A selection that draws from all twelve pitch classes when none is on, for
\* comparison under C16
pickTargetOfAll(pcs, excludeMidis, prevPitchClass, u1, u2) ==
  LET used == IF Len(pcs) = 0 THEN PITCH_CLASSES ELSE pcs
      pitchClass == pickPitchClass(used, prevPitchClass, u1)
      candidateMidis == validMidisForPitchClass(pitchClass)
      filteredMidis == FilterExcluded(candidateMidis, excludeMidis)
      poolMidis == IF Len(filteredMidis) > 0 THEN filteredMidis ELSE candidateMidis
      targetMidi == pickRandom(poolMidis, u2)
  IN  Some([midi |-> targetMidi, pitchClass |-> pitchClass,
            octave |-> pitchFromMidi(targetMidi).octave])

\* pickTarget with the pitch classes it closes over and its two draws
pickTarget(pcs, excludeMidis, prevPitchClass, u1, u2) ==
  IF Len(pcs) = 0 THEN Null
  ELSE LET pitchClass == pickPitchClass(pcs, prevPitchClass, u1)
           candidateMidis == validMidisForPitchClass(pitchClass)
       IN  IF Len(candidateMidis) = 0 THEN Null
           ELSE LET filteredMidis == FilterExcluded(candidateMidis, excludeMidis)
                    poolMidis == IF Len(filteredMidis) > 0 THEN filteredMidis ELSE candidateMidis
                    targetMidi == pickRandom(poolMidis, u2)
                IN  Some([midi |-> targetMidi, pitchClass |-> pitchClass,
                          octave |-> pitchFromMidi(targetMidi).octave])

\* ----- stats helpers -----
\* Timestamps are whole hours; a calendar day is DayLen of them (local time).
DayLen == 24

\* isSameDay: the year, month and date of both timestamps agree
isSameDay(tsA, tsB) == (tsA \div DayLen) = (tsB \div DayLen)

\* The three range filters of the App, as data: none, (item) => item.ts >= weekAgo,
\* (item) => isSameDay(item.ts, dayStart)
FilterAll == [kind |-> "all", ref |-> 0]
FilterSince(weekAgo) == [kind |-> "since", ref |-> weekAgo]
FilterSameDay(dayStart) == [kind |-> "sameDay", ref |-> dayStart]

Accepts(rangeFilter, item) ==
  CASE rangeFilter.kind = "all" -> TRUE
    [] rangeFilter.kind = "since" -> item.ts >= rangeFilter.ref
    [] rangeFilter.kind = "sameDay" -> isSameDay(item.ts, rangeFilter.ref)

\* A read of the pitchClass field alone, for comparison under C11
ItemPitchClassOnly(item) ==
  IF "pitchClass" \in DOMAIN item THEN item.pitchClass ELSE ""

\* item.pitchClass ?? item.letter ("" stands for undefined)
ItemPitchClass(item) ==
  IF "pitchClass" \in DOMAIN item THEN item.pitchClass
  ELSE IF "letter" \in DOMAIN item THEN item.letter ELSE ""

\* The items.forEach accumulation of summarizeBy, from position i on
RECURSIVE SummarizeLoop(_, _, _)
SummarizeLoop(items, i, acc) ==
  IF i > Len(items) THEN acc
  ELSE LET item == items[i]
           pc == ItemPitchClass(item)
           inc == IF item.correct THEN 1 ELSE 0
           byLabel == IF pc \in DOMAIN acc.byLabel
                      THEN [acc.byLabel EXCEPT ![pc] = [total |-> @.total + 1,
                                                        correct |-> @.correct + inc]]
                      ELSE acc.byLabel
       IN  SummarizeLoop(items, i + 1,
                         [byLabel |-> byLabel,
                          totalCount |-> acc.totalCount + 1,
                          correctCount |-> acc.correctCount + inc])

\* ----- JavaScript numbers -----
\* Numbers are IEEE 754 doubles: 53 significand bits, results rounded to the
\* nearest double, ties to the even significand.  A whole number too long for
\* one integer of the model is three limbs <<high, mid, low>>, standing for
\* high * Limb^2 + mid * Limb + low.  A positive double is [sig, exp]: sig the
\* limbs of twice its significand (a whole number of 54 bits) and exp the power
\* of two of its first bit, so that its value is sig / 2^(53 - exp).
MantissaBits == 53
Limb == 2^18

\* The same number with mid and low below Limb
Carry(n) ==
  LET mid == n[2] + (n[3] \div Limb)
  IN  <<n[1] + (mid \div Limb), mid % Limb, n[3] % Limb>>

\* The e <= exp with 2^e <= num / den < 2^(e+1), for 0 < num <= den * 2^(-exp)
RECURSIVE Exponent(_, _, _)
Exponent(num, den, exp) ==
  IF num >= den THEN exp ELSE Exponent(2 * num, den, exp - 1)

\* The double num / den for integers 0 < num <= den.  Long division, limb by
\* limb, gives the MantissaBits + 1 bits of floor(num * 2^(53 - e) / den), where
\* 2^(53 - e) is 2^(17 - e) * Limb * Limb; the last bit and the remainder decide
\* the rounding.
DoubleDivide(num, den) ==
  LET e == Exponent(num, den, 0)
      high == num * 2^(MantissaBits - 36 - e)
      mid == (high % den) * Limb
      low == (mid % den) * Limb
      q == low \div den
      half == q % 2 = 1
      odd == (q \div 2) % 2 = 1
      up == half /\ (low % den /= 0 \/ odd)
  IN  [sig |-> Carry(<<high \div den, mid \div den,
                       q - (q % 2) + (IF up THEN 2 ELSE 0)>>),
       exp |-> e]

\* The double x * 100.  The exact product is 200 times a significand of 53 bits:
\* a whole number of 60 or 61 bits, of which the last 7 or 8 are rounded away.
DoubleTimes100(x) ==
  LET p == Carry(<<x.sig[1] * 100, x.sig[2] * 100, x.sig[3] * 100>>)
      drop == IF p[1] >= 2^24 THEN 2^8 ELSE 2^7
      rest == p[3] % drop
      odd == (p[3] \div drop) % 2 = 1
      up == 2 * rest > drop \/ (2 * rest = drop /\ odd)
  IN  [sig |-> Carry(<<p[1], p[2], p[3] - rest + (IF up THEN drop ELSE 0)>>),
       exp |-> x.exp]

\* Math.round(x) for a positive double: floor(x + 0.5), computed as
\* floor((floor(2 * sig / Limb^2) + 2^k) / 2^(k+1)) with k = 17 - exp
MathRound(x) ==
  LET k == MantissaBits - 36 - x.exp
      twice == 2 * x.sig[1] + (IF 2 * x.sig[2] >= Limb THEN 1 ELSE 0)
  IN  (twice + 2^k) \div 2^(k + 1)

\* A percentage rounded without the intermediate double: round(100 * correct / total)
PctExact(correct, total) ==
  IF total /= 0 THEN (200 * correct + total) \div (2 * total) ELSE 0

\* total ? Math.round((correct/total)*100) : 0
Pct(correct, total) ==
  IF total = 0 \/ correct = 0 THEN 0
  ELSE MathRound(DoubleTimes100(DoubleDivide(correct, total)))

\* summarizeBy over the stored history hist
summarizeBy(hist, rangeFilter) ==
  LET Keep(item) == Accepts(rangeFilter, item)
      items == SelectSeq(hist, Keep)
      acc == SummarizeLoop(items, 1,
               [byLabel |-> [pc \in PcSet |-> [total |-> 0, correct |-> 0]],
                totalCount |-> 0, correctCount |-> 0])
      Row(pitchClass) ==
        [label |-> pitchClass, total |-> acc.byLabel[pitchClass].total,
         correct |-> acc.byLabel[pitchClass].correct,
         pct |-> Pct(acc.byLabel[pitchClass].correct, acc.byLabel[pitchClass].total)]
  IN  [all |-> [label |-> "All", total |-> acc.totalCount, correct |-> acc.correctCount,
                pct |-> Pct(acc.correctCount, acc.totalCount)],
       rows |-> [i \in 1..Len(PITCH_CLASSES) |-> Row(PITCH_CLASSES[i])]]

\* ----- state -----
VARIABLES
  lsSelected,        \* localStorage["pt_selectedNotes"]: Null or Some(object)
  lsHistory,         \* localStorage["pt_history"]: Null or Some(array)
  selected,          \* useState: pitch class -> boolean, a partial map
  currentNote,       \* useState: Null or Some([midi, pitchClass, octave, instrument])
  postGuess,         \* useState
  lastGuessLetter,   \* useState: Null or Some(pitch class)
  lastGuessCorrect,  \* useState: Null or Some(boolean)
  nearestMap,        \* useState: Null or Some(pitch class -> [midi, pitchClass, octave])
  showStats,         \* useState
  statsStateActive,  \* useRef
  lastPlayed,        \* lastPlayedRef.current
  nextInstrument,    \* nextInstrumentRef.current: Null or Some(name)
  keySelected,       \* the `selected` seen by the registered keydown handler
  played,            \* the last playNoteName call: Null or Some([instrument, pitchClass, octave])
  online,            \* whether import('https://cdn.skypack.dev/soundfont-player') resolves
  sfCache,           \* sfCache: name -> handle, 0 when absent
  loadsPre,          \* name -> loadInstrument calls that have not yet tested sfCache
  loadsFetch,        \* name -> handles whose Soundfont.instrument call is pending
  fetchCount,        \* name -> Soundfont.instrument calls made so far
  returned,          \* name -> handles loadInstrument has returned so far
  fnIn,              \* where a function is checked alone: its arguments
  fnOut,             \* and Null or Some(its result)
  roundPitchClass    \* history variable: Null or Some(pitch class of the target of
                     \* the round started last since the page was loaded)

storageVars == <<lsSelected, lsHistory>>
roundVars == <<currentNote, postGuess, lastGuessLetter, lastGuessCorrect, nearestMap>>
statsVars == <<showStats, statsStateActive>>
cacheVars == <<online, sfCache, loadsFetch, fetchCount, returned>>
loaderVars == <<online, sfCache, loadsPre, loadsFetch, fetchCount, returned>>
appVars == <<lsSelected, lsHistory, selected, currentNote, postGuess, lastGuessLetter,
             lastGuessCorrect, nearestMap, showStats, statsStateActive, lastPlayed,
             nextInstrument, keySelected, played>>
fnVars == <<fnIn, fnOut>>
histVars == <<roundPitchClass>>
vars == <<appVars, loaderVars, fnVars, histVars>>

InstrumentNames == {INSTRUMENTS[i] : i \in 1..Len(INSTRUMENTS)}

\* ----- storage helpers -----
DefaultSelected == ("C" :> TRUE) @@ ("E" :> TRUE) @@ ("G#" :> TRUE)

loadSelected(raw) == IF raw /= Null THEN raw[1] ELSE DefaultSelected
loadHistory(raw) == IF raw = Null THEN <<>> ELSE raw[1]

\* Date.now(): a clock that has advanced by one unit at every recorded guess
DateNow == Len(loadHistory(lsHistory)) + 1

\* ----- the instrument loader -----
RECURSIVE SumOver(_, _)
SumOver(f, S) ==
  IF S = {} THEN 0
  ELSE LET n == CHOOSE x \in S : TRUE IN f[n] + SumOver(f, S \ {n})

\* loadInstrument calls that have not returned
InFlight ==
  SumOver([n \in InstrumentNames |-> loadsPre[n] + Cardinality(loadsFetch[n])],
          InstrumentNames)

\* loadInstrument(name) is called: it runs up to "await ensureSoundfont()".  When
\* the import rejects, the call throws there and its caller drops the rejection.
CallLoad(pre, instrumentName) ==
  IF online THEN [pre EXCEPT ![instrumentName] = @ + 1] ELSE pre

\* A call resumes after "await ensureSoundfont(); await ensureAudioCtx()" and
\* tests sfCache: a miss starts Soundfont.instrument, a hit returns the handle.
LoadResume(instrumentName) ==
  /\ loadsPre[instrumentName] > 0
  /\ loadsPre' = [loadsPre EXCEPT ![instrumentName] = @ - 1]
  /\ IF sfCache[instrumentName] = 0
     THEN /\ fetchCount' = [fetchCount EXCEPT ![instrumentName] = @ + 1]
          /\ loadsFetch' = [loadsFetch EXCEPT ![instrumentName] =
                              @ \cup {fetchCount[instrumentName] + 1}]
          /\ UNCHANGED <<sfCache, returned>>
     ELSE /\ returned' = [returned EXCEPT ![instrumentName] = @ \cup {sfCache[instrumentName]}]
          /\ UNCHANGED <<sfCache, loadsFetch, fetchCount>>
  /\ UNCHANGED <<appVars, online, fnVars, histVars>>

\* Soundfont.instrument resolves with the handle inst: it is put in sfCache and
\* the call returns sfCache.get(name)
LoadFetched(instrumentName, inst) ==
  /\ inst \in loadsFetch[instrumentName]
  /\ loadsFetch' = [loadsFetch EXCEPT ![instrumentName] = @ \ {inst}]
  /\ sfCache' = [sfCache EXCEPT ![instrumentName] = inst]
  /\ returned' = [returned EXCEPT ![instrumentName] = @ \cup {inst}]
  /\ UNCHANGED <<appVars, online, loadsPre, fetchCount, fnVars, histVars>>

\* Soundfont.instrument rejects: the call throws and nothing is cached
LoadFailed(instrumentName, inst) ==
  /\ inst \in loadsFetch[instrumentName]
  /\ loadsFetch' = [loadsFetch EXCEPT ![instrumentName] = @ \ {inst}]
  /\ UNCHANGED <<appVars, online, sfCache, loadsPre, fetchCount, returned, fnVars, histVars>>

\* ----- the App component -----
NoteRec(instrument, pitchClass, octave) ==
  [instrument |-> instrument, pitchClass |-> pitchClass, octave |-> octave]

\* playNoteName(instrumentName, `${pitchClass}${octave}`): the call is noted and
\* loadInstrument is called
playNoteName(pre, instrumentName, pitchClass, octave) ==
  /\ played' = Some(NoteRec(instrumentName, pitchClass, octave))
  /\ loadsPre' = CallLoad(pre, instrumentName)

\* A window that keeps its first three notes, for comparison under C7
PushPlayedKeepingFirst(arr, midi) ==
  IF Len(arr) < 3 THEN Append(arr, midi) ELSE arr

\* A window that takes the new note at its front, for comparison under C19
PushPlayedAtFront(arr, midi) == SubSeq(<<midi>> \o arr, 1, IF Len(arr) < 3 THEN Len(arr) + 1 ELSE 3)

\* [...lastPlayedRef.current, midi].slice(-3)
PushPlayed(arr, midi) == SliceLast(Append(arr, midi), 3)

\* What the keydown effect, with dependencies [postGuess, currentNote, showStats],
\* leaves registered after a render: a handler of the new render when a dependency
\* changed, the old handler otherwise.  noteSet tells that setCurrentNote was
\* given a new object.
KeyHandlerAfter(noteSet) ==
  keySelected' = IF noteSet \/ postGuess' /= postGuess \/ currentNote' /= currentNote
                    \/ showStats' /= showStats
                 THEN selected' ELSE keySelected

\* The component mounts: the state initialisers, then the effects, of which
\* selectAndPrefetchNextInstrument draws u.  The values of the variables then.
Mounted(raw, net, u) ==
  [selected |-> loadSelected(raw),
   currentNote |-> Null, postGuess |-> FALSE, lastGuessLetter |-> Null,
   lastGuessCorrect |-> Null, nearestMap |-> Null, showStats |-> FALSE,
   statsStateActive |-> FALSE, lastPlayed |-> <<>>,
   keySelected |-> loadSelected(raw), played |-> Null,
   nextInstrument |-> Some(pickRandom(INSTRUMENTS, u)),
   online |-> net,
   sfCache |-> [n \in InstrumentNames |-> 0],
   loadsPre |-> [n \in InstrumentNames |->
                   IF net /\ n = pickRandom(INSTRUMENTS, u) THEN 1 ELSE 0],
   loadsFetch |-> [n \in InstrumentNames |-> {}],
   fetchCount |-> [n \in InstrumentNames |-> 0],
   returned |-> [n \in InstrumentNames |-> {}]]

\* The variables other than the storage have the values of the record m
MemoryIs(m) ==
  /\ selected = m.selected
  /\ currentNote = m.currentNote
  /\ postGuess = m.postGuess
  /\ lastGuessLetter = m.lastGuessLetter
  /\ lastGuessCorrect = m.lastGuessCorrect
  /\ nearestMap = m.nearestMap
  /\ showStats = m.showStats
  /\ statsStateActive = m.statsStateActive
  /\ lastPlayed = m.lastPlayed
  /\ keySelected = m.keySelected
  /\ played = m.played
  /\ nextInstrument = m.nextInstrument
  /\ online = m.online
  /\ sfCache = m.sfCache
  /\ loadsPre = m.loadsPre
  /\ loadsFetch = m.loadsFetch
  /\ fetchCount = m.fetchCount
  /\ returned = m.returned
  /\ roundPitchClass = Null

\* The variables other than the storage take the values of the record m
MemoryBecomes(m) ==
  /\ selected' = m.selected
  /\ currentNote' = m.currentNote
  /\ postGuess' = m.postGuess
  /\ lastGuessLetter' = m.lastGuessLetter
  /\ lastGuessCorrect' = m.lastGuessCorrect
  /\ nearestMap' = m.nearestMap
  /\ showStats' = m.showStats
  /\ statsStateActive' = m.statsStateActive
  /\ lastPlayed' = m.lastPlayed
  /\ keySelected' = m.keySelected
  /\ played' = m.played
  /\ nextInstrument' = m.nextInstrument
  /\ online' = m.online
  /\ sfCache' = m.sfCache
  /\ loadsPre' = m.loadsPre
  /\ loadsFetch' = m.loadsFetch
  /\ fetchCount' = m.fetchCount
  /\ returned' = m.returned
  /\ roundPitchClass' = Null

\* The page is loaded again: module state and component state start over, the
\* storage stays
Reload ==
  /\ UNCHANGED <<storageVars, fnVars>>
  /\ \E u \in Rand : MemoryBecomes(Mounted(lsSelected, online, u))

\* A reset that leaves the current note, for comparison under C3
resetRoundKeepingNote ==
  /\ postGuess' = FALSE
  /\ lastGuessLetter' = Null
  /\ lastGuessCorrect' = Null
  /\ nearestMap' = Null
  /\ currentNote' = currentNote

\* A reset that leaves the last guess and its feedback, for comparison under C22
resetRoundKeepingGuess ==
  /\ postGuess' = FALSE
  /\ UNCHANGED <<lastGuessLetter, lastGuessCorrect>>
  /\ nearestMap' = Null
  /\ currentNote' = Null

resetRound ==
  /\ postGuess' = FALSE
  /\ lastGuessLetter' = Null
  /\ lastGuessCorrect' = Null
  /\ nearestMap' = Null
  /\ currentNote' = Null

\* A toggle without the "last one stays on" test, for comparison under C5
onToggleUnguarded(pitchClass) ==
  LET next == (pitchClass :> ~IsOn(selected, pitchClass)) @@ selected
  IN  /\ selected' = next
      /\ lsSelected' = Some(next)
      /\ postGuess' = FALSE
      /\ lastGuessLetter' = Null
      /\ lastGuessCorrect' = Null
      /\ nearestMap' = Null
      /\ currentNote' = Null
      /\ UNCHANGED <<lsHistory, statsVars, lastPlayed, nextInstrument, played,
                     loaderVars, fnVars, histVars>>
      /\ KeyHandlerAfter(FALSE)

onToggle(pitchClass) ==
  LET onCount == Len(selectedPitchClasses(selected))
      currentlyOn == IsOn(selected, pitchClass)
  IN  IF currentlyOn /\ onCount <= 1
      THEN UNCHANGED vars
      ELSE LET next == (pitchClass :> ~currentlyOn) @@ selected
           IN  /\ selected' = next
               /\ lsSelected' = Some(next)
               /\ resetRound
               /\ UNCHANGED <<lsHistory, statsVars, lastPlayed, nextInstrument, played,
                              loaderVars, fnVars, histVars>>
               /\ KeyHandlerAfter(FALSE)

\* selectAndPrefetchNextInstrument, up to its await
selectAndPrefetchNextInstrument(pre, u) ==
  [next |-> pickRandom(INSTRUMENTS, u), pre |-> CallLoad(pre, pickRandom(INSTRUMENTS, u))]

\* The previous pitch class onPlayNew hands to pickTarget
PrevPitchClass ==
  IF currentNote /= Null /\ currentNote[1].pitchClass /= ""
  THEN Some(currentNote[1].pitchClass)
  ELSE IF Len(lastPlayed) > 0
       THEN Some(pitchFromMidi(lastPlayed[Len(lastPlayed)]).pitchClass)
       ELSE Null

\* A round start that leaves the feedback of the last guess in place, for
\* comparison under C15
PlayNewKeepingFeedback(targetNote, u3, u4) ==
  IF targetNote = Null
  THEN UNCHANGED vars
  ELSE LET instrument == IF nextInstrument /= Null THEN nextInstrument[1]
                         ELSE pickRandom(INSTRUMENTS, u3)
           prefetch == selectAndPrefetchNextInstrument(loadsPre, u4)
       IN  /\ postGuess' = FALSE
           /\ UNCHANGED <<lastGuessLetter, lastGuessCorrect, nearestMap>>
           /\ currentNote' = Some([midi |-> targetNote[1].midi,
                                   pitchClass |-> targetNote[1].pitchClass,
                                   octave |-> targetNote[1].octave,
                                   instrument |-> instrument])
           /\ lastPlayed' = PushPlayed(lastPlayed, targetNote[1].midi)
           /\ nextInstrument' = Some(prefetch.next)
           /\ playNoteName(prefetch.pre, instrument, targetNote[1].pitchClass,
                           targetNote[1].octave)
           /\ roundPitchClass' = Some(targetNote[1].pitchClass)
           /\ UNCHANGED <<storageVars, selected, statsVars, cacheVars, fnVars>>
           /\ KeyHandlerAfter(TRUE)

\* onPlayNew once pickTarget has returned targetNote; u3 and u4 are its other
\* random draws
PlayNewWith(targetNote, u3, u4) ==
  IF targetNote = Null
  THEN UNCHANGED vars
  ELSE LET instrument == IF nextInstrument /= Null THEN nextInstrument[1]
                         ELSE pickRandom(INSTRUMENTS, u3)
           prefetch == selectAndPrefetchNextInstrument(loadsPre, u4)
       IN  /\ postGuess' = FALSE
           /\ lastGuessLetter' = Null
           /\ lastGuessCorrect' = Null
           /\ nearestMap' = Null
           /\ currentNote' = Some([midi |-> targetNote[1].midi,
                                   pitchClass |-> targetNote[1].pitchClass,
                                   octave |-> targetNote[1].octave,
                                   instrument |-> instrument])
           /\ lastPlayed' = PushPlayed(lastPlayed, targetNote[1].midi)
           /\ nextInstrument' = Some(prefetch.next)
           /\ playNoteName(prefetch.pre, instrument, targetNote[1].pitchClass,
                           targetNote[1].octave)
           /\ roundPitchClass' = Some(targetNote[1].pitchClass)
           /\ UNCHANGED <<storageVars, selected, statsVars, cacheVars, fnVars>>
           /\ KeyHandlerAfter(TRUE)

onPlayNew(sel) ==
  LET targets == {pickTarget(selectedPitchClasses(sel), lastPlayed, PrevPitchClass, u1, u2) :
                    u1 \in Rand, u2 \in Rand}
  IN  \E targetNote \in targets :
        \E u3 \in IF nextInstrument = Null THEN Rand ELSE {<<0, 1>>} :
          \E u4 \in Rand : PlayNewWith(targetNote, u3, u4)

\* A replay that also enters its note in the window, for comparison under C17
onReplayPushing ==
  IF currentNote = Null
  THEN UNCHANGED vars
  ELSE /\ playNoteName(loadsPre, currentNote[1].instrument, currentNote[1].pitchClass,
                       currentNote[1].octave)
       /\ lastPlayed' = PushPlayed(lastPlayed, currentNote[1].midi)
       /\ UNCHANGED <<storageVars, selected, roundVars, statsVars,
                      nextInstrument, keySelected, cacheVars, fnVars, histVars>>

onReplay ==
  IF currentNote = Null
  THEN UNCHANGED vars
  ELSE /\ playNoteName(loadsPre, currentNote[1].instrument, currentNote[1].pitchClass,
                       currentNote[1].octave)
       /\ UNCHANGED <<storageVars, selected, roundVars, statsVars, lastPlayed,
                      nextInstrument, keySelected, cacheVars, fnVars, histVars>>

\* A comparison that calls every guess right, for comparison under C2
GuessCorrectAlways(target, guessPitchClass) == TRUE

\* const correct = guessPitchClass === target.pitchClass: what recordGuess returns
GuessCorrect(target, guessPitchClass) == guessPitchClass = target.pitchClass

\* An event without the legacy field, for comparison under C14
GuessEventWithoutLetter(target, guessPitchClass) ==
  [ts |-> DateNow, midi |-> target.midi, pitchClass |-> target.pitchClass,
   octave |-> target.octave, guess |-> guessPitchClass,
   correct |-> guessPitchClass = target.pitchClass]

\* The object recordGuess pushes
GuessEvent(target, guessPitchClass) ==
  [ts |-> DateNow, midi |-> target.midi, pitchClass |-> target.pitchClass,
   letter |-> target.pitchClass, octave |-> target.octave, guess |-> guessPitchClass,
   correct |-> GuessCorrect(target, guessPitchClass)]

\* A recordGuess that pushes nothing, for comparison under C1
recordGuessNothing(target, guessPitchClass) == loadHistory(lsHistory)

\* A recordGuess that saves the new event alone, for comparison under C6
recordGuessAlone(target, guessPitchClass) == <<GuessEvent(target, guessPitchClass)>>

\* The array recordGuess saves
recordGuess(target, guessPitchClass) ==
  Append(loadHistory(lsHistory), GuessEvent(target, guessPitchClass))

\* The nearestByPitchClass object onGuess builds
NearestByPitchClass(pcs, midi) ==
  LET have == {pcs[i] : i \in {j \in 1..Len(pcs) :
                                 nearestMidiForPitchClass(pcs[j], midi) /= Null}}
  IN  [pc \in have |-> nearestMidiForPitchClass(pc, midi)[1]]

\* A guess that renames the target after the guessed pitch class, for comparison
\* under C20
onGuessRenamingTarget(pitchClass) ==
  IF currentNote = Null
  THEN UNCHANGED <<lsHistory, roundVars>>
  ELSE /\ lsHistory' = Some(recordGuess(currentNote[1], pitchClass))
       /\ lastGuessLetter' = Some(pitchClass)
       /\ lastGuessCorrect' = Some(GuessCorrect(currentNote[1], pitchClass))
       /\ nearestMap' = Some(NearestByPitchClass(selectedPitchClasses(selected),
                                                  currentNote[1].midi))
       /\ postGuess' = TRUE
       /\ currentNote' = Some([currentNote[1] EXCEPT !.pitchClass = pitchClass])

\* onGuess: what it does to the history and the round
onGuess(pitchClass) ==
  IF currentNote = Null
  THEN UNCHANGED <<lsHistory, roundVars>>
  ELSE /\ lsHistory' = Some(recordGuess(currentNote[1], pitchClass))
       /\ lastGuessLetter' = Some(pitchClass)
       /\ lastGuessCorrect' = Some(GuessCorrect(currentNote[1], pitchClass))
       /\ nearestMap' = Some(NearestByPitchClass(selectedPitchClasses(selected),
                                                  currentNote[1].midi))
       /\ postGuess' = TRUE
       /\ UNCHANGED currentNote

\* A guess button is clicked.  The buttons exist for the selected pitch classes
\* while there is a current note or a guess has been made.
ClickGuess(pitchClass) ==
  /\ currentNote /= Null \/ postGuess
  /\ Includes(selectedPitchClasses(selected), pitchClass)
  /\ IF ~postGuess
     THEN \* first guess: play the guessed pitch nearest to the target, record the guess
          /\ onGuess(pitchClass)
          /\ LET nearest == IF currentNote = Null THEN Null
                            ELSE nearestMidiForPitchClass(pitchClass, currentNote[1].midi)
             IN  IF nearest /= Null
                 THEN /\ lastPlayed' = PushPlayed(lastPlayed, nearest[1].midi)
                      /\ playNoteName(loadsPre, currentNote[1].instrument,
                                      nearest[1].pitchClass, nearest[1].octave)
                 ELSE UNCHANGED <<lastPlayed, loadsPre, played>>
          /\ UNCHANGED <<lsSelected, selected, statsVars, nextInstrument, cacheVars, fnVars, histVars>>
          /\ KeyHandlerAfter(FALSE)
     ELSE IF nearestMap /= Null /\ pitchClass \in DOMAIN nearestMap[1]
          THEN \* later clicks: preview the nearest note of that pitch class
               LET previewMidi == nearestMap[1][pitchClass].midi
                   p == pitchFromMidi(previewMidi)
               IN  /\ currentNote /= Null
                   /\ lastPlayed' = PushPlayed(lastPlayed, previewMidi)
                   /\ playNoteName(loadsPre, currentNote[1].instrument, p.pitchClass,
                                   p.octave)
                   /\ UNCHANGED <<storageVars, selected, roundVars, statsVars,
                                  nextInstrument, keySelected, cacheVars, fnVars, histVars>>
          ELSE UNCHANGED vars

\* The Play / Replay button
ClickPlay ==
  IF currentNote /= Null /\ ~postGuess THEN onReplay ELSE onPlayNew(selected)

\* keydown of Space, handled by the registered onKey
KeySpace ==
  IF showStats
  THEN UNCHANGED vars
  ELSE IF ~postGuess /\ currentNote /= Null THEN onReplay ELSE onPlayNew(keySelected)

openStats ==
  /\ statsStateActive' = TRUE
  /\ showStats' = TRUE
  /\ UNCHANGED <<storageVars, selected, roundVars, lastPlayed, nextInstrument, played,
                 loaderVars, fnVars, histVars>>
  /\ KeyHandlerAfter(FALSE)

closeStats ==
  /\ showStats' = FALSE
  /\ statsStateActive' = FALSE
  /\ UNCHANGED <<storageVars, selected, roundVars, lastPlayed, nextInstrument, played,
                 loaderVars, fnVars, histVars>>
  /\ KeyHandlerAfter(FALSE)

\* The close button and the overlay background, there while the stats show
ClickCloseStats == showStats /\ closeStats

\* keydown of Escape
KeyEscape == IF showStats THEN closeStats ELSE UNCHANGED vars

\* popstate: the browser goes back over the entry openStats pushed
onPop ==
  /\ statsStateActive
  /\ closeStats

\* ----- specifications -----
\* Each specification follows the handlers above from a state the program starts
\* in, within a scope: a condition every state of the behaviours it covers meets.

\* The toggle buttons the model clicks
TogglePcs == {"C", "G#"}

\* The selection a visitor stores by switching E off, and a guess stored while E
\* was on
StoredSelection == ("C" :> TRUE) @@ ("E" :> FALSE) @@ ("G#" :> TRUE)
StoredHistory ==
  <<[ts |-> 0, midi |-> 60, pitchClass |-> "C", letter |-> "C", octave |-> 4,
     guess |-> "E", correct |-> FALSE]>>

\* Spec: a returning visitor, the player's CDN unreachable.  Scope: the history
\* holds at most MaxHistory guesses and the instrument drawn for the next round is
\* always the first of INSTRUMENTS.
Scope ==
  /\ Len(loadHistory(lsHistory)) <= MaxHistory
  /\ nextInstrument = Some(INSTRUMENTS[1])

Init ==
  /\ lsSelected = Some(StoredSelection)
  /\ lsHistory = Some(StoredHistory)
  /\ \E u \in Rand : MemoryIs(Mounted(lsSelected, FALSE, u))
  /\ fnIn = Null
  /\ fnOut = Null
  /\ Scope

Next ==
  \/ \E pitchClass \in TogglePcs : onToggle(pitchClass) /\ Scope'
  \/ ClickPlay /\ Scope'
  \/ KeySpace /\ Scope'
  \/ \E pitchClass \in PcSet : ClickGuess(pitchClass) /\ Scope'
  \/ openStats /\ Scope'
  \/ ClickCloseStats /\ Scope'
  \/ KeyEscape /\ Scope'
  \/ onPop /\ Scope'
  \/ Reload /\ Scope'

Spec == Init /\ [][Next]_vars


\* SpecPick: pickTarget alone.  Its arguments are drawn at the start: the
\* `selected` object behind selectedPitchClasses, the window, the previous pitch
\* class and the two values of Math.random(), the first on the fine grid.
PickPool == {"C", "E", "G#", "A"}
PickPrevious == {Null} \cup {Some(pc) : pc \in PickPool \cup {"D"}}
PickWindows == {<<>>, <<56>>, <<68, 56>>, <<48, 60, 72>>, <<64, 68, 56>>}

PickInputs ==
  [selected : [PickPool -> BOOLEAN], excludeMidis : PickWindows,
   prevPitchClass : PickPrevious, u1 : FineRand, u2 : Rand]

FirstVisit ==
  /\ lsSelected = Null
  /\ lsHistory = Null
  /\ MemoryIs(Mounted(lsSelected, FALSE, <<0, 1>>))

InitPick ==
  /\ FirstVisit
  /\ fnIn \in PickInputs
  /\ fnOut = Null

CallPickTarget ==
  /\ fnOut = Null
  /\ fnOut' = Some(pickTarget(selectedPitchClasses(fnIn.selected), fnIn.excludeMidis,
                              fnIn.prevPitchClass, fnIn.u1, fnIn.u2))
  /\ UNCHANGED <<appVars, loaderVars, fnIn, histVars>>

NextPick == CallPickTarget

SpecPick == InitPick /\ [][NextPick]_vars

\* SpecLoader: a returning visitor with the CDN reachable, so that every
\* loadInstrument call runs on, interleaved with the clicks.  Scope: at most
\* MaxLoads calls are in flight, Soundfont.instrument is called at most
\* MaxFetches times for a name, and the history holds at most MaxHistory guesses.
ScopeLoader ==
  /\ Len(loadHistory(lsHistory)) <= MaxHistory
  /\ InFlight <= MaxLoads
  /\ \A n \in InstrumentNames : fetchCount[n] <= MaxFetches

InitLoader ==
  /\ lsSelected = Some(StoredSelection)
  /\ lsHistory = Some(StoredHistory)
  /\ \E u \in Rand : MemoryIs(Mounted(lsSelected, TRUE, u))
  /\ fnIn = Null
  /\ fnOut = Null
  /\ ScopeLoader

NextLoader ==
  \/ ClickPlay /\ ScopeLoader'
  \/ \E pitchClass \in PcSet : ClickGuess(pitchClass) /\ ScopeLoader'
  \/ \E n \in InstrumentNames : LoadResume(n) /\ ScopeLoader'
  \/ \E n \in InstrumentNames : \E inst \in loadsFetch[n] : LoadFetched(n, inst) /\ ScopeLoader'
  \/ \E n \in InstrumentNames : \E inst \in loadsFetch[n] : LoadFailed(n, inst) /\ ScopeLoader'

SpecLoader == InitLoader /\ [][NextLoader]_vars

\* SpecRound: the App of Spec with the CDN reachable: every handler, interleaved
\* with the loadInstrument calls they start.  Scope: that of Spec, at most
\* MaxRoundLoads calls in flight, at most MaxFetches downloads of a name, and
\* only G# is switched off and on.
MaxRoundLoads == 2

\* The toggle button SpecRound clicks
RoundTogglePcs == {"G#"}

ScopeRound ==
  /\ Scope
  /\ InFlight <= MaxRoundLoads
  /\ \A n \in InstrumentNames : fetchCount[n] <= MaxFetches

InitRound ==
  /\ lsSelected = Some(StoredSelection)
  /\ lsHistory = Some(StoredHistory)
  /\ \E u \in Rand : MemoryIs(Mounted(lsSelected, TRUE, u))
  /\ fnIn = Null
  /\ fnOut = Null
  /\ ScopeRound

NextRound ==
  \/ \E pitchClass \in RoundTogglePcs : onToggle(pitchClass) /\ ScopeRound'
  \/ ClickPlay /\ ScopeRound'
  \/ KeySpace /\ ScopeRound'
  \/ \E pitchClass \in PcSet : ClickGuess(pitchClass) /\ ScopeRound'
  \/ openStats /\ ScopeRound'
  \/ ClickCloseStats /\ ScopeRound'
  \/ KeyEscape /\ ScopeRound'
  \/ onPop /\ ScopeRound'
  \/ \E n \in InstrumentNames : LoadResume(n) /\ ScopeRound'
  \/ \E n \in InstrumentNames : \E inst \in loadsFetch[n] : LoadFetched(n, inst) /\ ScopeRound'
  \/ \E n \in InstrumentNames : \E inst \in loadsFetch[n] : LoadFailed(n, inst) /\ ScopeRound'

SpecRound == InitRound /\ [][NextRound]_vars

\* SpecEmpty: the App of Spec, started on a stored selection that has no pitch
\* class on (loadSelected returns whatever object the storage parses to).
EmptySelection == ("C" :> FALSE) @@ ("E" :> FALSE) @@ ("G#" :> FALSE)

InitEmpty ==
  /\ lsSelected = Some(EmptySelection)
  /\ lsHistory = Some(StoredHistory)
  /\ \E u \in Rand : MemoryIs(Mounted(lsSelected, FALSE, u))
  /\ fnIn = Null
  /\ fnOut = Null
  /\ Scope

SpecEmpty == InitEmpty /\ [][Next]_vars

\* SpecSummary: summarizeBy alone, as the render calls it with each of its three
\* filters, over a stored history drawn at the start: any MaxItems guesses or
\* fewer of SummaryEvents in the order of their time, or MaxRun guesses or fewer
\* of C of which the first few are right.
weekAgo == SummaryNow - 7 * DayLen
dayStart == (SummaryNow \div DayLen) * DayLen

SummaryFilters == {FilterAll, FilterSince(weekAgo), FilterSameDay(dayStart)}

\* Guesses as recordGuess stores them
StoredEvents ==
  {[ts |-> ts, midi |-> midiFromPitchClass(pc, 4), pitchClass |-> pc, letter |-> pc,
    octave |-> 4, guess |-> IF correct THEN pc ELSE "D", correct |-> correct] :
     ts \in {0, SummaryNow - 2 * DayLen, SummaryNow}, pc \in {"C", "E"}, correct \in BOOLEAN}

\* Guesses stored by a version that wrote the pitch class as `letter` only
LegacyEvents ==
  {[ts |-> 0, midi |-> 69, letter |-> "A", octave |-> 4,
    guess |-> IF correct THEN "A" ELSE "D", correct |-> correct] : correct \in BOOLEAN}

SummaryEvents == StoredEvents \cup LegacyEvents

RECURSIVE SeqsUpTo(_, _)
SeqsUpTo(S, n) ==
  IF n = 0 THEN {<<>>}
  ELSE LET shorter == SeqsUpTo(S, n - 1)
       IN  shorter \cup {Append(h, e) : h \in shorter, e \in S}

MixedHistories ==
  {h \in SeqsUpTo(SummaryEvents, MaxItems) :
     \A i \in 1..(Len(h) - 1) : h[i].ts <= h[i + 1].ts}

RunEvent(correct) ==
  [ts |-> SummaryNow, midi |-> 60, pitchClass |-> "C", letter |-> "C", octave |-> 4,
   guess |-> IF correct THEN "C" ELSE "E", correct |-> correct]

RunHistories ==
  {[i \in 1..run[1] |-> RunEvent(i <= run[2])] :
     run \in {r \in (1..MaxRun) \X (0..MaxRun) : r[2] <= r[1]}}

InitSummary ==
  /\ lsSelected = Null
  /\ lsHistory \in {Some(h) : h \in MixedHistories \cup RunHistories}
  /\ MemoryIs(Mounted(lsSelected, FALSE, <<0, 1>>))
  /\ fnIn \in SummaryFilters
  /\ fnOut = Null

CallSummarizeBy ==
  /\ fnOut = Null
  /\ fnOut' = Some(summarizeBy(loadHistory(lsHistory), fnIn))
  /\ UNCHANGED <<appVars, loaderVars, fnIn, histVars>>

NextSummary == CallSummarizeBy

SpecSummary == InitSummary /\ [][NextSummary]_vars

\* SpecPitch: the MIDI / note helpers alone.  The arguments drawn at the start
\* are a pitch class with a target MIDI in range (nearestMidiForPitchClass), a
\* pitch class with an octave of the loop of validMidisForPitchClass
\* (midiFromPitchClass, then pitchFromMidi), or a MIDI in range (pitchFromMidi,
\* then midiFromPitchClass).
Octaves == 0..8
MidiRange == MIN_MIDI..MAX_MIDI

PitchInputs ==
  [call : {"nearest"}, pitchClass : PcSet, targetMidi : MidiRange]
    \cup [call : {"pitchOfMidi"}, pitchClass : PcSet, octave : Octaves]
    \cup [call : {"midiOfPitch"}, midi : MidiRange]

InitPitch ==
  /\ FirstVisit
  /\ fnIn \in PitchInputs
  /\ fnOut = Null

CallNearestMidiForPitchClass ==
  /\ fnOut = Null
  /\ fnIn.call = "nearest"
  /\ fnOut' = Some(nearestMidiForPitchClass(fnIn.pitchClass, fnIn.targetMidi))
  /\ UNCHANGED <<appVars, loaderVars, fnIn, histVars>>

CallPitchFromMidi ==
  /\ fnOut = Null
  /\ fnIn.call = "pitchOfMidi"
  /\ fnOut' = Some(pitchFromMidi(midiFromPitchClass(fnIn.pitchClass, fnIn.octave)))
  /\ UNCHANGED <<appVars, loaderVars, fnIn, histVars>>

CallMidiFromPitchClass ==
  /\ fnOut = Null
  /\ fnIn.call = "midiOfPitch"
  /\ fnOut' = Some(midiFromPitchClass(pitchFromMidi(fnIn.midi).pitchClass,
                                      pitchFromMidi(fnIn.midi).octave))
  /\ UNCHANGED <<appVars, loaderVars, fnIn, histVars>>

NextPitch ==
  \/ CallNearestMidiForPitchClass
  \/ CallPitchFromMidi
  \/ CallMidiFromPitchClass

SpecPitch == InitPitch /\ [][NextPitch]_vars

\* ----- what the description of the program claims -----
History == loadHistory(lsHistory)
Prompted == currentNote /= Null /\ ~postGuess
IsPrefix(a, b) == Len(a) <= Len(b) /\ SubSeq(b, 1, Len(a)) = a

\* C1: a guess clicked while a round is Prompted appends exactly one event to the
\* history, and outside Prompted (no target, or PostGuess where a click only
\* previews) no step changes the history.
C1_OneEventPerPromptedGuess ==
  [][/\ \A pitchClass \in PcSet :
          (Prompted /\ ClickGuess(pitchClass))
            => Len(History') = Len(History) + 1 /\ IsPrefix(History, History')
     /\ ~Prompted => History' = History]_vars

\* a first guess has been recorded and the round is PostGuess
C1_GuessRecorded ==
  /\ postGuess
  /\ Len(History) = Len(StoredHistory) + 1
  /\ Some(History[Len(History)].guess) = lastGuessLetter

\* C2: the event a Prompted guess appends has correct true exactly when the
\* guessed pitch class is the target's, carries the target's midi, pitch class
\* and octave, and the feedback flag shown equals its correct flag.
C2_EventMatchesTarget ==
  [][\A pitchClass \in PcSet :
       (Prompted /\ ClickGuess(pitchClass))
         => LET e == History'[Len(History')]
                target == currentNote[1]
            IN  /\ e.correct <=> (pitchClass = target.pitchClass)
                /\ e.midi = target.midi
                /\ e.pitchClass = target.pitchClass
                /\ e.octave = target.octave
                /\ lastGuessCorrect' = Some(e.correct)]_vars

\* a wrong guess has been recorded and is shown as wrong
C2_WrongGuessRecorded ==
  /\ postGuess
  /\ Len(History) > Len(StoredHistory)
  /\ History[Len(History)].guess /= currentNote[1].pitchClass
  /\ lastGuessCorrect = Some(FALSE)

\* C3: a toggle that takes effect while a round is Prompted or PostGuess leaves
\* no current note, no feedback and no preview map, and the history as it was.
C3_ToggleEndsRound ==
  [][\A pitchClass \in PcSet :
       (currentNote /= Null /\ onToggle(pitchClass) /\ selected' /= selected)
         => /\ currentNote' = Null
            /\ postGuess' = FALSE
            /\ lastGuessLetter' = Null
            /\ lastGuessCorrect' = Null
            /\ nearestMap' = Null
            /\ lsHistory' = lsHistory]_vars

\* a round with a recorded guess has been ended by a toggle
C3_RoundEndedByToggle ==
  /\ currentNote = Null
  /\ lastPlayed /= <<>>
  /\ Len(History) > Len(StoredHistory)

\* C4: the target a new round gets is a valid note of its pitch class, and it is
\* in the window handed to pickTarget only when every valid note of that pitch
\* class is in the window.
C4_TargetAvoidsWindow ==
  [][\A sel \in {selected, keySelected} :
       (~Prompted /\ currentNote' /= Null /\ onPlayNew(sel))
         => LET t == currentNote'[1]
                valid == validMidisForPitchClass(t.pitchClass)
            IN  /\ \E i \in 1..Len(valid) : valid[i] = t.midi
                /\ (\E j \in 1..Len(lastPlayed) : lastPlayed[j] = t.midi)
                     => \A i \in 1..Len(valid) :
                          \E j \in 1..Len(lastPlayed) : lastPlayed[j] = valid[i]]_vars

\* a round has started on a note that was already in the window
C4_FallbackTaken ==
  /\ Prompted
  /\ \E j \in 1..(Len(lastPlayed) - 1) : lastPlayed[j] = currentNote[1].midi

\* C5: the selection in memory and the stored one always have a pitch class on,
\* and a toggle of the only pitch class that is on changes neither.
C5_ActiveSetNeverEmpty ==
  /\ [](/\ \E pc \in PcSet : IsOn(selected, pc)
        /\ \E pc \in PcSet : IsOn(loadSelected(lsSelected), pc))
  /\ [][\A pitchClass \in PcSet :
          (/\ onToggle(pitchClass)
           /\ IsOn(selected, pitchClass)
           /\ \A pc \in PcSet \ {pitchClass} : ~IsOn(selected, pc))
            => selected' = selected /\ lsSelected' = lsSelected]_vars

\* one pitch class is left on, in memory and in the storage
C5_OneLeftOn ==
  /\ Cardinality({pc \in PcSet : IsOn(selected, pc)}) = 1
  /\ lsSelected = Some(selected)
  /\ selected /= StoredSelection

\* C6: the history before any step is a prefix of the history after it.
C6_HistoryAppendOnly == [][IsPrefix(History, History')]_vars

\* the history has grown and the stats are open
C6_GrownHistoryShown ==
  /\ Len(History) > Len(StoredHistory)
  /\ IsPrefix(StoredHistory, History)
  /\ showStats

\* C7: the window never holds more than three notes, and a step that pushes a
\* note (a new round, a first guess, a preview) leaves the window holding the
\* notes pushed so far, or the last three of them, in the order pushed.
PushedOnto(window, midi) ==
  IF Len(window) < 3 THEN Append(window, midi)
  ELSE <<window[2], window[3], midi>>

C7_WindowIsLastThree ==
  /\ [](Len(lastPlayed) <= 3)
  /\ [][/\ \A sel \in {selected, keySelected} :
             (~Prompted /\ currentNote' /= Null /\ onPlayNew(sel))
               => lastPlayed' = PushedOnto(lastPlayed, currentNote'[1].midi)
        /\ \A pitchClass \in PcSet :
             (/\ ClickGuess(pitchClass)
              /\ Prompted \/ (nearestMap /= Null /\ pitchClass \in DOMAIN nearestMap[1]))
               => /\ played'[1].pitchClass = pitchClass
                  /\ lastPlayed' = PushedOnto(lastPlayed,
                       midiFromPitchClass(pitchClass, played'[1].octave))]_vars

\* the target of the round has left the full window
C7_TargetEvicted ==
  /\ postGuess
  /\ Len(lastPlayed) = 3
  /\ \A j \in 1..3 : lastPlayed[j] /= currentNote[1].midi
\* C8: the draw r of Math.random() decides the pitch class by intervals of [0, 1)
\* laid out in the order of PITCH_CLASSES: when a previous pitch class is given,
\* is active, and more than one is active, the intervals are as long as the
\* weights 0.5 (previous) and 1 (others) over their sum; otherwise they are all
\* equally long.  For {C, E, G#} after C: C up to 0.2, E up to 0.6, G# above.
C8_WeightedSampling ==
  (fnOut /= Null /\ fnOut[1] /= Null) =>
    LET active == {pc \in PcSet : IsOn(fnIn.selected, pc)}
        Rank(pc) == Cardinality({q \in active : PITCH_CLASS_TO_PC[q] <= PITCH_CLASS_TO_PC[pc]})
        n == Cardinality(active)
        prev == fnIn.prevPitchClass
        num == fnIn.u1[1]
        den == fnIn.u1[2]
        chosen == fnOut[1][1].pitchClass
        k == Rank(chosen)
        biased == prev /= Null /\ prev[1] \in active /\ n > 1
        \* twice the weights of the first i active pitch classes
        Cum2(i) == 2 * i - (IF Rank(prev[1]) <= i THEN 1 ELSE 0)
    IN  /\ chosen \in active
        /\ biased => /\ num * (2 * n - 1) <= Cum2(k) * den
                      /\ (k = 1 \/ num * (2 * n - 1) > Cum2(k - 1) * den)
        /\ ~biased => ((k - 1) * den <= num * n /\ num * n < k * den)
        /\ (active = {"C", "E", "G#"} /\ prev = Some("C"))
             => /\ (chosen = "C") <=> (5 * num <= den)
                /\ (chosen = "E") <=> (den < 5 * num /\ 5 * num <= 3 * den)
                /\ (chosen = "G#") <=> (3 * den < 5 * num)

\* after C, with C, E and G# active, a draw above 0.6 has chosen G#
C8_BiasedDrawTaken ==
  /\ fnOut /= Null
  /\ fnOut[1] /= Null
  /\ {pc \in PcSet : IsOn(fnIn.selected, pc)} = {"C", "E", "G#"}
  /\ fnIn.prevPitchClass = Some("C")
  /\ 3 * fnIn.u1[2] < 5 * fnIn.u1[1]
  /\ fnOut[1][1].pitchClass = "G#"
\* C9: for every instrument name, the Soundfont.instrument calls that are
\* pending or have succeeded, and so the handles loadInstrument returns, are at
\* most one.
C9_FetchedOncePerName ==
  \A n \in InstrumentNames : Cardinality(loadsFetch[n] \cup returned[n]) <= 1

\* C10: the summary counts, for "All" and for each of the 12 pitch classes, the
\* filtered events and the correct ones among them, and its pct is
\* round(100 * correct / total), 0 when total is 0; the history [C right,
\* C wrong, E right] gives All 3/2/67, C 2/1/50, E 1/1/100, the others 0 and 0.
C10_SummaryCountsAndPct ==
  fnOut /= Null =>
    LET hist == loadHistory(lsHistory)
        kept == {i \in 1..Len(hist) :
                   \/ fnIn.kind = "all"
                   \/ fnIn.kind = "since" /\ hist[i].ts >= fnIn.ref
                   \/ fnIn.kind = "sameDay" /\ hist[i].ts \div DayLen = fnIn.ref \div DayLen}
        right == {i \in kept : hist[i].correct}
        PcAt(i) == IF "pitchClass" \in DOMAIN hist[i] THEN hist[i].pitchClass
                   ELSE hist[i].letter
        Of(I, pc) == {i \in I : PcAt(i) = pc}
        Line(label, total, correct) ==
          [label |-> label, total |-> total, correct |-> correct,
           pct |-> PctExact(correct, total)]
        summary == fnOut[1]
    IN  /\ summary.all = Line("All", Cardinality(kept), Cardinality(right))
        /\ Len(summary.rows) = 12
        /\ \A k \in 1..12 :
             summary.rows[k] = Line(PITCH_CLASSES[k], Cardinality(Of(kept, PITCH_CLASSES[k])),
                                    Cardinality(Of(right, PITCH_CLASSES[k])))
        /\ (fnIn.kind = "all" /\ Len(hist) = 3
            /\ PcAt(1) = "C" /\ hist[1].correct
            /\ PcAt(2) = "C" /\ ~hist[2].correct
            /\ PcAt(3) = "E" /\ hist[3].correct)
             => /\ summary.all = [label |-> "All", total |-> 3, correct |-> 2, pct |-> 67]
                /\ summary.rows[1] = [label |-> "C", total |-> 2, correct |-> 1, pct |-> 50]
                /\ summary.rows[5] = [label |-> "E", total |-> 1, correct |-> 1, pct |-> 100]
                /\ \A k \in (1..12) \ {1, 5} :
                     summary.rows[k].total = 0 /\ summary.rows[k].pct = 0

\* C11: the summary of a history does not change when entries of it are put in
\* the legacy form (the pitch class under `letter`, no `pitchClass` field), nor
\* when its legacy entries are given a `pitchClass` field of that value.
LegacyForm(item) ==
  LET pc == IF "pitchClass" \in DOMAIN item THEN item.pitchClass ELSE item.letter
  IN  [f \in (DOMAIN item \ {"pitchClass"}) \cup {"letter"} |->
         IF f = "letter" THEN pc ELSE item[f]]

CurrentForm(item) ==
  LET pc == IF "pitchClass" \in DOMAIN item THEN item.pitchClass ELSE item.letter
  IN  [f \in DOMAIN item \cup {"pitchClass"} |->
         IF f = "pitchClass" THEN pc ELSE item[f]]

\* The sets of positions whose entries are rewritten: all sets for a short
\* history, a few for a long one
RewrittenPositions(n) ==
  IF n <= MaxItems THEN SUBSET (1..n)
  ELSE {1..n, {i \in 1..n : i % 2 = 1}, {n}}

C11_LegacyEntriesReadAlike ==
  fnOut /= Null =>
    LET hist == loadHistory(lsHistory)
    IN  /\ \A I \in RewrittenPositions(Len(hist)) :
             summarizeBy([i \in 1..Len(hist) |->
                            IF i \in I THEN LegacyForm(hist[i]) ELSE hist[i]], fnIn)
               = fnOut[1]
        /\ summarizeBy([i \in 1..Len(hist) |-> CurrentForm(hist[i])], fnIn) = fnOut[1]

\* a history with a legacy entry has been summarized, and the entry counted
C11_LegacyEntryCounted ==
  /\ fnOut /= Null
  /\ \E i \in 1..Len(loadHistory(lsHistory)) :
       "pitchClass" \notin DOMAIN loadHistory(lsHistory)[i]
  /\ fnOut[1].rows[10].total > 0

\* C12: for each of the 12 pitch classes and each target MIDI in [45, 79],
\* nearestMidiForPitchClass returns a note, not null; the note is a MIDI of that
\* pitch class in [45, 79], no other such MIDI is nearer to the target, and of
\* two equally near it is the smaller.
C12_NearestIsMinimal ==
  (fnOut /= Null /\ fnIn.call = "nearest") =>
    /\ fnOut[1] /= Null
    /\ LET best == fnOut[1][1].midi
           target == fnIn.targetMidi
           valid == {m \in 45..79 : \E o \in 0..8 :
                       m = 12 * (o + 1) + PITCH_CLASS_TO_PC[fnIn.pitchClass]}
           Dist(m) == IF m < target THEN target - m ELSE m - target
       IN  /\ best \in valid
           /\ \A m \in valid : Dist(best) <= Dist(m)
           /\ \A m \in valid : Dist(m) = Dist(best) => best <= m

\* of two notes of the pitch class six semitones either side of the target, the
\* lower has been returned
C12_TieTakesLower ==
  /\ fnOut /= Null
  /\ fnIn.call = "nearest"
  /\ fnOut[1] /= Null
  /\ fnOut[1][1].midi = fnIn.targetMidi - 6
  /\ fnIn.targetMidi + 6 <= 79

\* C13: for a pitch class P and octave O whose MIDI 12 * (O + 1) + index(P) is in
\* [45, 79], pitchFromMidi(midiFromPitchClass(P, O)) is (P, O); for a MIDI m in
\* [45, 79], midiFromPitchClass of pitchFromMidi(m) is m.
C13_RoundTrip ==
  fnOut /= Null =>
    /\ (/\ fnIn.call = "pitchOfMidi"
        /\ 12 * (fnIn.octave + 1) + PITCH_CLASS_TO_PC[fnIn.pitchClass] \in 45..79)
         => fnOut[1] = [pitchClass |-> fnIn.pitchClass, octave |-> fnIn.octave]
    /\ fnIn.call = "midiOfPitch" => fnOut[1] = fnIn.midi

\* G#3, a note in range, has been taken to its MIDI and back
C13_RoundTripTaken ==
  /\ fnOut /= Null
  /\ fnIn.call = "pitchOfMidi"
  /\ fnIn.pitchClass = "G#"
  /\ fnIn.octave = 3
  /\ fnOut[1].pitchClass = "G#"

\* C14, as amended: every event appended to the history has exactly the fields
\* ts (the timestamp), midi, pitchClass, octave, guess (the guessed pitch
\* class), correct, and letter, which repeats pitchClass.
Appended == {i \in 1..Len(History) : i > Len(StoredHistory)}

C14_EventFieldsWithLetter ==
  \A i \in Appended :
    /\ DOMAIN History[i] = {"ts", "midi", "pitchClass", "octave", "guess", "correct", "letter"}
    /\ History[i].letter = History[i].pitchClass
    /\ History[i].correct \in BOOLEAN

\* an event has been appended, carrying its pitch class under both names
C14_EventAppended ==
  /\ Appended /= {}
  /\ \E i \in Appended : History[i].letter = "G#" /\ History[i].pitchClass = "G#"

\* C14, as stated: every event appended to the history has exactly the fields
\* timestamp (ts), midi, pitchClass, octave, guessedPitchClass (guess) and
\* correct, and no others.
C14_EventFieldsAsStated ==
  \A i \in Appended :
    DOMAIN History[i] = {"ts", "midi", "pitchClass", "octave", "guess", "correct"}

\* C15: with a pitch class on, target selection always returns a note, and a
\* round start (the play control outside Prompted) leaves a current target with
\* MIDI in [45, 79], no guess made, and the guess, its feedback and the preview
\* map cleared; no step of a loadInstrument call, resolved or rejected, changes
\* what the round start left.
PromptedFresh ==
  /\ currentNote /= Null
  /\ currentNote[1].midi \in MIN_MIDI..MAX_MIDI
  /\ ~postGuess
  /\ lastGuessLetter = Null
  /\ lastGuessCorrect = Null
  /\ nearestMap = Null

LoaderStep ==
  \E n \in InstrumentNames :
    \/ LoadResume(n)
    \/ \E inst \in loadsFetch[n] : LoadFetched(n, inst) \/ LoadFailed(n, inst)

C15_RoundStartSucceeds ==
  /\ []((\E pc \in PcSet : IsOn(selected, pc)) =>
          \A u1 \in Rand, u2 \in Rand :
            pickTarget(selectedPitchClasses(selected), lastPlayed, PrevPitchClass,
                       u1, u2) /= Null)
  /\ [][/\ (~Prompted /\ ClickPlay) => PromptedFresh'
        /\ LoaderStep => UNCHANGED <<roundVars, lastPlayed>>]_vars

\* a round is Prompted although every download of its instrument was rejected
C15_PromptedAfterFailedLoad ==
  /\ PromptedFresh
  /\ played = Some(NoteRec(currentNote[1].instrument, currentNote[1].pitchClass,
                           currentNote[1].octave))
  /\ fetchCount[currentNote[1].instrument] >= 1
  /\ sfCache[currentNote[1].instrument] = 0
  /\ InFlight = 0

\* C16: while no pitch class is on, target selection returns null for every
\* window, previous pitch class and draw, and no step other than a toggle (the
\* play control and the Space key among them) changes the current target, the
\* guess and feedback state, the window or the history, or plays a note.
NoneOn == selectedPitchClasses(selected) = <<>>

C16_EmptySetStartsNothing ==
  /\ [](NoneOn =>
          /\ selectedPitchClasses(keySelected) = <<>>
          /\ \A u1 \in Rand, u2 \in Rand :
               pickTarget(selectedPitchClasses(selected), lastPlayed, PrevPitchClass,
                          u1, u2) = Null)
  /\ [][(NoneOn /\ (ClickPlay \/ KeySpace)) =>
          UNCHANGED <<roundVars, lastPlayed, lsHistory, played, nextInstrument>>]_vars
  /\ [][(NoneOn /\ NoneOn') =>
          UNCHANGED <<roundVars, lastPlayed, lsHistory, played>>]_vars

\* no pitch class is on and the play control can be clicked: the click leaves
\* every variable as it was, with no target, no note played and an empty window
C16_StillIdle ==
  /\ NoneOn
  /\ currentNote = Null
  /\ played = Null
  /\ lastPlayed = <<>>
  /\ History = StoredHistory
  /\ ~showStats
  /\ ENABLED (ClickPlay /\ UNCHANGED vars)

\* C17, as amended: the play control, and the Space key while the stats are
\* closed, replay in Prompted and start a new round in Idle and PostGuess; while
\* the stats are open the Space key does nothing.  A replay plays the current
\* target on the round's instrument and leaves the history, the current target,
\* the guess and feedback state and the window unchanged.
ReplayEffect ==
  /\ played' = Some(NoteRec(currentNote[1].instrument, currentNote[1].pitchClass,
                            currentNote[1].octave))
  /\ UNCHANGED <<lsHistory, roundVars, lastPlayed>>

NewRoundEffect ==
  /\ PromptedFresh'
  /\ lastPlayed' = PushedOnto(lastPlayed, currentNote'[1].midi)
  /\ played' = Some(NoteRec(currentNote'[1].instrument, currentNote'[1].pitchClass,
                            currentNote'[1].octave))
  /\ lsHistory' = lsHistory

C17_ReplayOnlyInPrompted ==
  [][/\ (Prompted /\ (ClickPlay \/ KeySpace)) => ReplayEffect
     /\ (/\ ~Prompted
         /\ UNCHANGED <<storageVars, selected, statsVars, cacheVars>>
         /\ (ClickPlay \/ KeySpace)) => NewRoundEffect
     /\ showStats => ~KeySpace]_vars

\* the first round is Prompted, nothing was ever cached, and loadInstrument has
\* been called four times for the round's instrument: by the mount, by the
\* prefetch and the playback of the round start, and by a replay
C17_Replayed ==
  /\ Prompted
  /\ lastPlayed = <<currentNote[1].midi>>
  /\ History = StoredHistory
  /\ played = Some(NoteRec(currentNote[1].instrument, currentNote[1].pitchClass,
                           currentNote[1].octave))
  /\ \A n \in InstrumentNames : sfCache[n] = 0
  /\ fetchCount[currentNote[1].instrument] + loadsPre[currentNote[1].instrument] = 4

\* C17, as stated: the play control and the Space key replay in Prompted and
\* start a new round in Idle and PostGuess.
C17_SpaceAlwaysActs ==
  /\ Prompted => ENABLED (ClickPlay /\ ReplayEffect)
  /\ Prompted => ENABLED (KeySpace /\ ReplayEffect)
  /\ ~Prompted => ENABLED (ClickPlay /\ NewRoundEffect)
  /\ ~Prompted => ENABLED (KeySpace /\ NewRoundEffect)

\* C18: in every state in which a round can be started (no round is Prompted),
\* the bias pitch class onPlayNew would pass to pickTarget is the pitch class of
\* the target of the round started last, and is absent when no round was started.
C18_BiasIsPreviousTarget == ~Prompted => PrevPitchClass = roundPitchClass

\* C19: every step that plays a note other than a replay (a round start, a first
\* guess, a preview) puts the note it plays at the end of the window, dropping the
\* oldest entry of a full window; and the target of a round start is outside the
\* window as it was, guessed and previewed notes included, unless every valid
\* note of its pitch class is in the window.
NoteMidi(note) == midiFromPitchClass(note.pitchClass, note.octave)

InWindow(midi) == \E j \in 1..Len(lastPlayed) : lastPlayed[j] = midi

C19_PlayedNotesEnterWindow ==
  [][/\ (/\ played' /= Null
         /\ played' /= played \/ lastPlayed' /= lastPlayed)
          => lastPlayed' = PushedOnto(lastPlayed, NoteMidi(played'[1]))
     /\ \A pitchClass \in PcSet :
          (/\ ClickGuess(pitchClass)
           /\ Prompted \/ (nearestMap /= Null /\ pitchClass \in DOMAIN nearestMap[1]))
            => /\ played' /= Null
               /\ played' = Some(NoteRec(currentNote[1].instrument, pitchClass,
                                         played'[1].octave))
               /\ lastPlayed' /= <<>>
               /\ lastPlayed'[Len(lastPlayed')] = NoteMidi(played'[1])
     /\ (/\ ~Prompted
         /\ UNCHANGED <<storageVars, selected, statsVars, cacheVars>>
         /\ ClickPlay \/ KeySpace)
          => /\ currentNote' /= Null
             /\ lastPlayed' /= <<>>
             /\ lastPlayed'[Len(lastPlayed')] = currentNote'[1].midi
             /\ \/ ~InWindow(currentNote'[1].midi)
                \/ \A octave \in Octaves :
                     LET midi == midiFromPitchClass(currentNote'[1].pitchClass, octave)
                     IN  midi \in MidiRange => InWindow(midi)]_vars

\* the second round's target G#4 follows the first target C3 and the G#3 played
\* for a wrong guess: the guessed note is in the window and was avoided
C19_GuessedNoteAvoided ==
  /\ Prompted
  /\ lastPlayed = <<48, 56, 68>>
  /\ currentNote[1].midi = 68
  /\ Len(History) = Len(StoredHistory) + 1
  /\ History[Len(History)].midi = 48
  /\ History[Len(History)].guess = "G#"

\* C20: while a current target exists, a step changes it only by ending the
\* round: an accepted toggle, which clears it, in Prompted or PostGuess, or the
\* start of the next round in PostGuess.  Every other step (replay, guess,
\* preview, the stats opened or closed, a loadInstrument call resumed, resolved
\* or rejected) leaves its midi, pitch class, octave and instrument as they were.
ToggleAccepted == selected' /= selected /\ lsSelected' = Some(selected') /\ currentNote' = Null

NextRoundStarted ==
  /\ postGuess
  /\ PromptedFresh'
  /\ roundPitchClass' = Some(currentNote'[1].pitchClass)
  /\ lastPlayed' = PushedOnto(lastPlayed, currentNote'[1].midi)

C20_TargetImmutableInRound ==
  [][/\ currentNote /= Null => (currentNote' = currentNote \/ ToggleAccepted \/ NextRoundStarted)
     /\ (currentNote /= Null /\ selected' = selected /\ postGuess' = postGuess)
          => currentNote' = currentNote
     /\ (currentNote /= Null /\ LoaderStep) => currentNote' = currentNote]_vars

\* a round in which the target was guessed wrong and a preview played, the stats
\* were opened, and every loadInstrument call has returned with the round's
\* instrument cached: the target is still the note the round started with
C20_TargetKeptThroughRound ==
  /\ currentNote /= Null
  /\ postGuess
  /\ lastGuessCorrect = Some(FALSE)
  /\ showStats
  /\ Len(lastPlayed) = 3
  /\ lastPlayed[1] = currentNote[1].midi
  /\ roundPitchClass = Some(currentNote[1].pitchClass)
  /\ History[Len(History)].midi = currentNote[1].midi
  /\ sfCache[currentNote[1].instrument] /= 0
  /\ InFlight = 0

\* C21: once a guess has been made the preview map has an entry for exactly the
\* pitch classes that are on, each the nearest valid note of its pitch class to
\* the target, and the entry for the target's own pitch class is the target's
\* MIDI note.
ActiveSet == {pc \in PcSet : IsOn(selected, pc)}

PreviewMapOfActive ==
  /\ nearestMap /= Null
  /\ DOMAIN nearestMap[1] = ActiveSet
  /\ \A pc \in ActiveSet :
       Some(nearestMap[1][pc]) = nearestMidiForPitchClass(pc, currentNote[1].midi)

C21_PreviewMapHasTarget ==
  postGuess =>
    /\ currentNote /= Null
    /\ PreviewMapOfActive
    /\ currentNote[1].pitchClass \in DOMAIN nearestMap[1]
    /\ nearestMap[1][currentNote[1].pitchClass].midi = currentNote[1].midi

\* C22: in PostGuess a current target exists and the last guessed pitch class,
\* its correctness and the preview map are set; outside PostGuess the three are
\* unset.
C22_RoundVariablesConsistent ==
  /\ postGuess =>
       /\ currentNote /= Null
       /\ lastGuessLetter /= Null
       /\ lastGuessCorrect /= Null
       /\ nearestMap /= Null
  /\ ~postGuess =>
       /\ lastGuessLetter = Null
       /\ lastGuessCorrect = Null
       /\ nearestMap = Null

\* no round is on, after a guess was recorded in this visit and a toggle ended
\* its round: the guess, its feedback and the preview map are gone
C22_ClearedAfterGuess ==
  /\ currentNote = Null
  /\ ~postGuess
  /\ lastGuessLetter = Null
  /\ Len(lastPlayed) >= 2
  /\ Len(History) > Len(StoredHistory)
  /\ roundPitchClass = Some(History[Len(History)].pitchClass)
  /\ selected /= StoredSelection

\* C23: whenever a current target exists its pitch class is on, its MIDI number
\* is in [45, 79] and its pitch class and octave are those of that MIDI number;
\* the last guessed pitch class, when set, is on.
C23_TargetInActiveSet ==
  /\ currentNote /= Null =>
       /\ currentNote[1].pitchClass \in ActiveSet
       /\ currentNote[1].midi \in MidiRange
       /\ pitchFromMidi(currentNote[1].midi).pitchClass = currentNote[1].pitchClass
       /\ pitchFromMidi(currentNote[1].midi).octave = currentNote[1].octave
  /\ lastGuessLetter /= Null => lastGuessLetter[1] \in ActiveSet

=============================================================================
